---- MODULE Spec2Model ----
(***************************************************************************)
(* A model of src/core/Controller.js of spoonjs: the state table builder,  *)
(* the default state normaliser, the name resolver, the equality decider   *)
(* and the delegation engine, over a small fixed tree of controllers that  *)
(* share one state registry (the authority).                               *)
(*                                                                         *)
(* Strings the code parses (declaration keys, raw state names) are         *)
(* sequences of one-character strings.  A full state name is the sequence  *)
(* of its dot-separated parts, as String.split('.') gives them: the empty  *)
(* name is <<"">>, and a + '.' + b is a \o b.                              *)
(***************************************************************************)
EXTENDS Integers, Sequences, FiniteSets, TLC

VARIABLES heap, ctl, regCur, debug, last, steps

vars == <<heap, ctl, regCur, debug, last, steps>>

\* Number of operations one behaviour performs.
MaxSteps == 3

\* ------------------------------------------------------------------------
\* Generic helpers (mout, String and Array methods)

Min(S) == CHOOSE m \in S : \A n \in S : m <= n

Max(S) == CHOOSE m \in S : \A n \in S : m >= n

Range(s) == {s[i] : i \in DOMAIN s}

\* String.prototype.indexOf / Array.prototype.indexOf, 1-based, 0 when absent.
IndexOf(s, e) ==
  LET I == {i \in DOMAIN s : s[i] = e} IN IF I = {} THEN 0 ELSE Min(I)

\* The string a sequence of characters spells.
RECURSIVE Join(_)
Join(s) == IF s = <<>> THEN "" ELSE Head(s) \o Join(Tail(s))

\* mout/string/startsWith
startsWith(s, p) == Len(s) >= Len(p) /\ SubSeq(s, 1, Len(p)) = p

\* mout/object/mixIn: the keys of b overwrite those of a.
mixIn(a, b) ==
  [k \in DOMAIN a \cup DOMAIN b |-> IF k \in DOMAIN b THEN b[k] ELSE a[k]]

\* mout/object/fillIn: the keys of b fill only what a lacks.
fillIn(a, b) ==
  [k \in DOMAIN a \cup DOMAIN b |-> IF k \in DOMAIN a THEN a[k] ELSE b[k]]

\* The empty parameter bag {}.
NoParams == [k \in {} |-> 0]

\* A one-key parameter bag.
Bag(k, v) == [x \in {k} |-> v]

\* ------------------------------------------------------------------------
\* State table builder: Controller.prototype._parseStates

\* Controller._stateParamsRegExp = /\((.+?)\)/ applied to a key: <<i, j>>, the
\* places of the "(" and of the ")" of the leftmost, shortest match, or <<0, 0>>.
Closing(key, i) == {j \in DOMAIN key : j >= i + 2 /\ key[j] = ")"}

Opening(key) == {i \in DOMAIN key : key[i] = "(" /\ Closing(key, i) # {}}

MatchFrom(key, i) == <<i, Min(Closing(key, i))>>

stateParamsRegExp(key) ==
  IF Opening(key) = {} THEN <<0, 0>> ELSE MatchFrom(key, Min(Opening(key)))

\* s without its leading blanks.
RECURSIVE TrimLeft(_)
TrimLeft(s) ==
  IF s # <<>> /\ Head(s) = " " THEN TrimLeft(Tail(s)) ELSE s

\* s without its trailing blanks.
RECURSIVE TrimRight(_)
TrimRight(s) ==
  IF s # <<>> /\ s[Len(s)] = " " THEN TrimRight(SubSeq(s, 1, Len(s) - 1)) ELSE s

\* String.prototype.split(/\s*,\s*/): the pieces between the commas, each
\* blank run next to a comma belonging to the separator.
Lead(p, first) == IF first THEN p ELSE TrimLeft(p)

RECURSIVE SplitParams(_, _)

SplitAt(s, c, first) ==
  IF c = 0 THEN <<Join(Lead(s, first))>>
  ELSE <<Join(TrimRight(Lead(SubSeq(s, 1, c - 1), first)))>>
       \o SplitParams(SubSeq(s, c + 1, Len(s)), FALSE)

SplitParams(s, first) == SplitAt(s, IndexOf(s, ","), first)

\* stateRegistry.isValid of a local key: parts of letters, digits, "_" and
\* "-", separated by single dots.
NameChars ==
  {"a", "b", "c", "d", "e", "h", "i", "l", "m", "o", "s", "t", "v", "w", "x", "_", "-"}

isValid(key) ==
  /\ key # <<>>
  /\ \A i \in DOMAIN key : key[i] \in NameChars \cup {"."}
  /\ key[1] # "."
  /\ key[Len(key)] # "."
  /\ \A i \in 1..(Len(key) - 1) : ~(key[i] = "." /\ key[i + 1] = ".")

\* One declaration key of the _states object, parsed (lines 218-233 and 255):
\* the local name (as characters and as a string), the wildcard flag and the
\* relevant parameters; m is the match of the regular expression.
ParsedKey(name, matched, inner) ==
  [chars |-> name,
   name |-> Join(name),
   wildcard |-> matched /\ inner = <<"*">>,
   params |-> IF ~matched \/ inner = <<"*">> THEN <<>> ELSE SplitParams(inner, TRUE)]

ParseMatch(key, m) ==
  ParsedKey(IF m[1] = 0 THEN key ELSE SubSeq(key, 1, IndexOf(key, "(") - 1),
            m[1] # 0, SubSeq(key, m[1] + 1, m[2] - 1))

ParseKey(key) == ParseMatch(key, stateParamsRegExp(key))

\* What a handler reference resolves to (lines 244-248): a function is kept, a
\* string is looked up among the controller's methods.
ResolveHandler(fn, methods) ==
  IF fn.kind = "string"
    THEN (IF fn.ref \in methods THEN "function" ELSE "undefined")
    ELSE fn.kind

\* A _parseStates whose checks do not depend on has('debug').
KeyErrorInAnyBuild(p, fn, methods, dbg) ==
  IF ~isValid(p.chars) THEN "InvalidFormat"
  ELSE IF IndexOf(p.chars, ".") # 0 THEN "NotLocal"
  ELSE IF ResolveHandler(fn, methods) # "function" THEN "NoHandler"
  ELSE "none"

\* The error, if any, _parseStates throws on one declaration (lines 235-252),
\* p being its parsed key.
KeyError(p, fn, methods, dbg) ==
  IF dbg /\ ~isValid(p.chars) THEN "InvalidFormat"
  ELSE IF dbg /\ IndexOf(p.chars, ".") # 0 THEN "NotLocal"
  ELSE IF dbg /\ ResolveHandler(fn, methods) # "function" THEN "NoHandler"
  ELSE "none"

\* The entry of the table for a declaration.
Entry(p, fn, methods) ==
  [wildcard |-> p.wildcard, params |-> p.params, fn |-> ResolveHandler(fn, methods)]

\* The last declaration of local name n: it overwrites the earlier ones.
LastOf(keys, n) == Max({i \in DOMAIN keys : keys[i].name = n})

\* _parseStates over the declarations in for-in order, given their parsed keys
\* and the errors each throws: the first error thrown, or the table built.
TableOf(decls, keys, errors, methods) ==
  IF \E i \in DOMAIN errors : errors[i] # "none"
    THEN [error |-> errors[Min({i \in DOMAIN errors : errors[i] # "none"})],
          states |-> [n \in {} |-> 0], nrStates |-> Len(decls)]
    ELSE [error |-> "none",
          states |-> [n \in {keys[i].name : i \in DOMAIN keys} |->
                        Entry(keys[LastOf(keys, n)], decls[LastOf(keys, n)].fn, methods)],
          nrStates |-> Len(decls)]

ErrorsOf(decls, keys, methods, dbg) ==
  [i \in DOMAIN decls |-> KeyError(keys[i], decls[i].fn, methods, dbg)]

ParsedKeys(decls) == [i \in DOMAIN decls |-> ParseKey(decls[i].key)]

TableFrom(decls, keys, methods, dbg) ==
  TableOf(decls, keys, ErrorsOf(decls, keys, methods, dbg), methods)

\* Controller.prototype._parseStates
parseStates(decls, methods, dbg) ==
  TableFrom(decls, ParsedKeys(decls), methods, dbg)

\* Default state normaliser: Controller.prototype._parseDefaultState.  dflt is
\* [kind |-> "none"], a bare name [kind |-> "string", name |-> n] or an object
\* [kind |-> "object", name |-> n, params |-> p].
DefaultError(obj, states, dbg) ==
  IF dbg /\ obj.kind = "object" /\ obj.name = "" THEN "EmptyDefault"
  ELSE IF dbg /\ obj.kind = "object" /\ obj.name \notin DOMAIN states
    THEN "NoSuchDefault"
  ELSE "none"

DefaultObject(dflt) ==
  IF dflt.kind = "string"
    THEN [kind |-> "object", name |-> dflt.name, params |-> NoParams]
    ELSE dflt

parseDefaultState(dflt, states, dbg) ==
  [error |-> DefaultError(DefaultObject(dflt), states, dbg),
   dflt |-> DefaultObject(dflt)]

\* new Controller(): _parseStates, then _parseDefaultState (lines 23-28); t and
\* d are what the two return.
Constructed(t, d) ==
  IF t.error # "none" THEN [error |-> t.error]
  ELSE IF d.error # "none" THEN [error |-> d.error]
  ELSE [error |-> "none", states |-> t.states, nrStates |-> t.nrStates,
        dflt |-> d.dflt]

WithDefault(t, dflt, dbg) == Constructed(t, parseDefaultState(dflt, t.states, dbg))

Construct(cls, dbg) ==
  WithDefault(parseStates(cls.states, cls.methods, dbg), cls.dflt, dbg)

\* ------------------------------------------------------------------------
\* The tree the model runs on: the classes of its controllers, as declared.

Fn == [kind |-> "function"]

Ref(m) == [kind |-> "string", ref |-> m]

K_list == <<"l", "i", "s", "t">>

K_edit == <<"e", "d", "i", "t">>

K_show == <<"s", "h", "o", "w">>

K_item == <<"i", "t", "e", "m">>

K_active == <<"a", "c", "t", "i", "v", "e">>

K_home == <<"h", "o", "m", "e">>

\* The declared classes: _states, the methods a handler name may refer to,
\* and _defaultState.
Classes ==
  [root |-> [states |-> << [key |-> K_list, fn |-> Fn],
                           [key |-> K_edit \o <<"(", "*", ")">>, fn |-> Ref("onEdit")],
                           [key |-> K_show \o <<"(", "i", "d", ")">>, fn |-> Fn] >>,
             methods |-> {"onEdit"},
             dflt |-> [kind |-> "string", name |-> "list"]],
   mid |-> [states |-> << [key |-> K_item \o <<"(", "i", "d", " ", ",", " ", "q", ")">>, fn |-> Fn],
                          [key |-> K_active, fn |-> Fn] >>,
            methods |-> {},
            dflt |-> [kind |-> "object", name |-> "active", params |-> Bag("q", 7)]],
   sib |-> [states |-> << [key |-> K_item, fn |-> Fn],
                          [key |-> K_home, fn |-> Fn] >>,
            methods |-> {},
            dflt |-> [kind |-> "object", name |-> "home", params |-> Bag("id", 9)]],
   leaf |-> [states |-> << [key |-> K_home, fn |-> Fn],
                           [key |-> K_show, fn |-> Fn] >>,
             methods |-> {},
             dflt |-> [kind |-> "object", name |-> "home", params |-> Bag("id", 9)]],
   pane |-> [states |-> <<>>, methods |-> {}, dflt |-> [kind |-> "none"]],
   bare |-> [states |-> << [key |-> K_show, fn |-> Fn] >>,
             methods |-> {}, dflt |-> [kind |-> "none"]]]

\* The controllers (instances of Controller) and the other joints.
Controllers == {"root", "mid", "sib", "leaf", "pane", "bare"}

Joints == Controllers \cup {"view"}

\* Joint._uplink; "none" is null.
Uplink ==
  [root |-> "none", view |-> "root", mid |-> "root", sib |-> "root",
   leaf |-> "mid", pane |-> "view", bare |-> "view"]

\* Joint._downlinks, in the order the children were linked.
Downlinks ==
  [root |-> <<"view", "mid", "sib">>, view |-> <<"pane", "bare">>,
   mid |-> <<"leaf">>, sib |-> <<>>, leaf |-> <<>>, pane |-> <<>>, bare |-> <<>>]

\* The controllers as constructed (the classes above are valid in every build).
Built == [c \in Controllers |-> Construct(Classes[c], TRUE)]

\* this._states
States(c) == Built[c].states

\* this._nrStates
NrStates(c) == Built[c].nrStates

\* this._defaultState
DefaultState(c) == Built[c].dflt

HasDefault(c) == DefaultState(c).kind = "object"

\* ------------------------------------------------------------------------
\* The state descriptor (services/state State) and the registry

\* No descriptor (null).
Null == 0

\* A descriptor: the parts of its full name, its cursor and its parameters.
Desc(full, cur, params) == [full |-> full, cur |-> cur, params |-> params]

\* What a null descriptor reads as in a snapshot.
NoDesc == [full |-> <<>>, cur |-> 0, params |-> NoParams]

\* State.getName(): the part under the cursor, "" (null) past the end.
getName(d) == IF d.cur < Len(d.full) THEN d.full[d.cur + 1] ELSE ""

\* State.next(): the cursor moves one part on.
next(d) == [d EXCEPT !.cur = IF d.cur < Len(d.full) THEN d.cur + 1 ELSE d.cur]

\* State.setFullName(): the cursor stays.
setFullName(d, full) == [d EXCEPT !.full = full]

\* State.clone(): an independent copy, cursor included.
clone(d) == Desc(d.full, d.cur, d.params)

\* State.seekTo(name): the cursor on the first part of that name.
seekTo(d, name) ==
  [d EXCEPT !.cur = IF IndexOf(d.full, name) = 0 THEN Len(d.full)
                    ELSE IndexOf(d.full, name) - 1]

\* State.isEqual(other, keys): the same local name and the same values for
\* the keys given.
isEqual(a, b, keys) ==
  /\ getName(a) = getName(b)
  /\ \A k \in Range(keys) :
       /\ (k \in DOMAIN a.params) = (k \in DOMAIN b.params)
       /\ k \in DOMAIN a.params => a.params[k] = b.params[k]

\* The full names registered with the registry.
Registered ==
  { <<"list">>, <<"show">>, <<"edit">>, <<"list", "item">>, <<"list", "active">>,
    <<"list", "active", "home">>, <<"show", "home">> }

\* stateRegistry.isRegistered
isRegistered(full) == full \in Registered

\* ------------------------------------------------------------------------
\* The world an operation runs in: the descriptor objects (heap, by identity),
\* each controller's _currentState and _previousState, the registry's current
\* descriptor, the next free identity, the events of the operation so far and
\* the exception in flight.

World(h, c, r) ==
  [heap |-> h, ctl |-> c, reg |-> r,
   nid |-> Max(DOMAIN h \cup {0}) + 1, log |-> <<>>, err |-> "none",
   redir |-> [c |-> "none", t |-> NoDesc]]

\* An event: what happened (t), on which controller (c), for which local name
\* (name), caused by what (by), with the descriptor as it then was (d).
Ev(t, c, name, by, d) == [t |-> t, c |-> c, name |-> name, by |-> by, d |-> d]

Log(w, e) == [w EXCEPT !.log = Append(@, e)]

\* console.warn under has('debug').
Warn(w, kind, c, name) ==
  IF debug THEN Log(w, Ev("warn", c, name, kind, NoDesc)) ELSE w

\* A new descriptor object.
Alloc(w, d) == [w EXCEPT !.heap = (w.nid :> d) @@ @, !.nid = @ + 1]

\* Controller.prototype.getState as a value (NoDesc when null).
CurOf(w, c) == IF w.ctl[c].cur = Null THEN NoDesc ELSE w.heap[w.ctl[c].cur]

PrevOf(w, c) == IF w.ctl[c].prev = Null THEN NoDesc ELSE w.heap[w.ctl[c].prev]

\* The descriptor behind a reference, NoDesc behind null.
DescAt(w, id) == IF id = Null THEN NoDesc ELSE w.heap[id]

\* Controller.prototype._fillStateIfEmpty, d being the descriptor and dflt the
\* default state (lines 193-198).
FillWith(w, id, d, dflt) ==
  IF getName(d) = dflt.name
    THEN [w EXCEPT !.heap[id].params = fillIn(d.params, dflt.params)]
  ELSE IF getName(d) = ""
    THEN [w EXCEPT !.heap[id] =
            [setFullName(d, Append(d.full, dflt.name))
               EXCEPT !.params = fillIn(d.params, dflt.params)]]
  ELSE w

fillStateIfEmpty(w, c, id) ==
  IF ~HasDefault(c) THEN w ELSE FillWith(w, id, w.heap[id], DefaultState(c))

\* this._states[name] || {}
MetaOf(c, name) ==
  IF name \in DOMAIN States(c) THEN States(c)[name]
  ELSE [wildcard |-> FALSE, params |-> <<>>, fn |-> "undefined"]

\* An _isSameState that forgets the wildcard.
SameButWildcard(stateMeta, d, base) ==
  IF base = NoDesc THEN FALSE ELSE isEqual(base, d, stateMeta.params)

\* Lines 365-377 of _isSameState under the table entry stateMeta.
SameUnder(stateMeta, d, base) ==
  IF base = NoDesc THEN FALSE
  ELSE IF stateMeta.wildcard THEN FALSE
  ELSE isEqual(base, d, stateMeta.params)

\* Controller.prototype._isSameState(state, baseState)
isSameStateAs(c, d, base) == SameUnder(MetaOf(c, getName(d)), d, base)

\* Controller.prototype._isSameState(state): against the current state.
isSameState(w, c, id) == isSameStateAs(c, w.heap[id], CurOf(w, c))

\* A _setCurrentState that does not keep the previous state.
CommitCurrentOnly(w, c, new) == [w EXCEPT !.ctl[c].cur = new]

\* Lines 391-392: the current state becomes the previous one, and the clone
\* (the object new) the current one.
Commit(w, c, new) == [w EXCEPT !.ctl[c] = [prev |-> w.ctl[c].cur, cur |-> new]]

\* Lines 395-397: the registry's descriptor takes the clone's full name.
SyncRegistry(w, id, new) ==
  IF id = w.reg /\ w.heap[id].full # w.heap[new].full
    THEN [w EXCEPT !.heap[id] = setFullName(@, w.heap[new].full)]
    ELSE w

Committed(w, c, new) ==
  Log(w, Ev("commit", c, getName(w.heap[new]), "self", w.heap[new]))

\* Controller.prototype._setCurrentState
setCurrentState(w, c, id) ==
  Committed(SyncRegistry(Commit(Alloc(w, clone(w.heap[id])), c, w.nid), id, w.nid),
            c, w.nid)

\* state.next() on the descriptor delegated.
Advance(w, id) == [w EXCEPT !.heap[id] = next(@)]

RECURSIVE delegateState(_, _, _, _)

\* The handler is called with the params.
Invoked(w, c, name, id) ==
  Log(w, Ev("handler", c, name, States(c)[name].fn, w.heap[id]))

\* Lines 418-419: the handler of the current state is called with the params.
\* A handler does what its author wrote; w.redir is the one thing a handler
\* does here that reaches the controller: the handler of controller w.redir.c
\* calls this.delegateState on a descriptor w.redir.t of its own, once.
RunHandler(w, c, name, id) ==
  IF w.redir.c # c THEN Invoked(w, c, name, id)
  ELSE delegateState(Alloc([Invoked(w, c, name, id) EXCEPT !.redir.c = "none"], w.redir.t),
                     c, w.nid, "handler")

Handle(w, c, id) == RunHandler(w, c, getName(CurOf(w, c)), id)

\* Controller.prototype._performStateChange: commit, advance, run the handler.
performStateChange(w, c, id) == Handle(Advance(setCurrentState(w, c, id), id), c, id)

\* Whether child x of lines 443-461 can take the descriptor.
Accepts(x, name, full) ==
  /\ x \in Controllers
  /\ IF name = ""
       THEN HasDefault(x) /\ isRegistered(Append(full, DefaultState(x).name))
       ELSE name \in DOMAIN States(x)

\* A loop of _propagateState that does not stop at the first child accepting
\* and so ends on the last.
LastAccepting(kids, ok) == IF ok = {} THEN "none" ELSE kids[Max(ok)]

\* The first of the children ok, "none" when there is none.
FirstOf(kids, ok) == IF ok = {} THEN "none" ELSE kids[Min(ok)]

\* The child the loop of _propagateState stops at: the first that accepts.
findChild(c, name, full) ==
  FirstOf(Downlinks[c],
          {i \in DOMAIN Downlinks[c] : Accepts(Downlinks[c][i], name, full)})

\* A _propagateState that warns of no child even with no name left over.
HandToOrWarn(w, c, id, name, child) ==
  IF child # "none" THEN delegateState(w, child, id, c)
  ELSE Warn(w, "NoChild", c, name)

\* Lines 453-465: the child found is delegated the descriptor; with none, a
\* name left over is warned about.
HandTo(w, c, id, name, child) ==
  IF child # "none" THEN delegateState(w, child, id, c)
  ELSE IF name # "" THEN Warn(w, "NoChild", c, name)
  ELSE w

Handoff(w, c, id) ==
  HandTo(w, c, id, getName(w.heap[id]),
         findChild(c, getName(w.heap[id]), w.heap[id].full))

\* A _propagateState that hands the descriptor to the child before it stores
\* its own copy.
HandoffThenStore(w, c, id) == setCurrentState(Handoff(Advance(w, id), c, id), c, id)

\* A _propagateState that advances the descriptor before it stores the copy.
AdvanceThenStore(w, c, id) == Handoff(setCurrentState(Advance(w, id), c, id), c, id)

\* Controller.prototype._propagateState: commit, advance, hand to a child.
propagateState(w, c, id) == Handoff(Advance(setCurrentState(w, c, id), id), c, id)

\* What delegateState returns, logged: "this" or "undefined".
Returned(w, c, id, name, value) == Log(w, Ev("return", c, name, value, w.heap[id]))

\* A delegateState without lines 161-164.
Unreconciled(w, c, id, name) == w

\* A reconciliation that takes the registry's descriptor over as it is, not
\* its full name only.
ReconcileWhole(w, c, id, name) ==
  IF w.reg = id /\ w.ctl[c].cur # Null /\ getName(CurOf(w, c)) = name
    THEN Log([w EXCEPT !.heap[w.ctl[c].cur] = w.heap[id]],
             Ev("reconcile", c, name, "self", w.heap[id]))
    ELSE w

\* A reconciliation that does not look at the local name of the current
\* state.
ReconcileAnyName(w, c, id, name) ==
  IF w.reg = id /\ w.ctl[c].cur # Null
    THEN Log([w EXCEPT !.heap[w.ctl[c].cur] = setFullName(@, w.heap[id].full)],
             Ev("reconcile", c, name, "self", w.heap[id]))
    ELSE w

\* Lines 161-164: the full name of the descriptor is copied onto the current
\* state when the descriptor is the registry's and the local name is still name.
Reconcile(w, c, id, name) ==
  IF w.reg = id /\ w.ctl[c].cur # Null /\ getName(CurOf(w, c)) = name
    THEN Log([w EXCEPT !.heap[w.ctl[c].cur] = setFullName(@, w.heap[id].full)],
             Ev("reconcile", c, name, "self", w.heap[id]))
    ELSE w

Settled(w, c, id, name) ==
  IF w.err # "none" THEN w
  ELSE Returned(Reconcile(w, c, id, name), c, id, name, "this")

\* Line 149: what _isSameState(state) reported, logged.
Compared(w, c, id) ==
  Log(w, Ev("isSame", c, getName(w.heap[id]),
            IF isSameState(w, c, id) THEN "same" ELSE "different", w.heap[id]))

\* A delegateState that performs the state change whether or not the state is
\* the current one.
AlwaysPerform(w, c, id, same) == performStateChange(w, c, id)

\* Lines 149-155: a different state is performed, the same one propagated.
Branch(w, c, id, same) ==
  IF ~same THEN performStateChange(w, c, id) ELSE propagateState(w, c, id)

\* A delegateState that looks the name up in the table only after the state
\* was committed.
CommitThenDispatch(w, c, id, name) ==
  IF name = ""
    THEN Returned(IF NrStates(c) > 0 THEN Warn(w, "NoDefault", c, name) ELSE w,
                  c, id, name, "undefined")
  ELSE IF name \notin DOMAIN States(c)
    THEN Returned(Warn(setCurrentState(w, c, id), "Unknown", c, name),
                  c, id, name, "undefined")
  ELSE Settled(Branch(Compared(w, c, id), c, id, isSameState(w, c, id)), c, id, name)

\* Lines 131-155, name being the local name after the defaults were filled in.
Dispatch(w, c, id, name) ==
  IF name = ""
    THEN Returned(IF NrStates(c) > 0 THEN Warn(w, "NoDefault", c, name) ELSE w,
                  c, id, name, "undefined")
  ELSE IF name \notin DOMAIN States(c)
    THEN Returned(Warn(w, "Unknown", c, name), c, id, name, "undefined")
  ELSE Settled(Branch(Compared(w, c, id), c, id, isSameState(w, c, id)), c, id, name)

Filled(w, c, id) == Dispatch(w, c, id, getName(w.heap[id]))

\* Lines 126-129; a null descriptor makes state.getName() throw.
Entered(w, c, id) ==
  IF id = Null THEN [w EXCEPT !.err = "TypeError"]
  ELSE Filled(fillStateIfEmpty(w, c, id), c, id)

\* Whether the descriptor delegated is the object stateRegistry.getCurrent()
\* returns ("getCurrent") or another one (""), for the log.
Origin(w, arg) == IF arg = Null \/ arg = w.reg THEN "getCurrent" ELSE ""

\* Controller.prototype.delegateState; arg is the descriptor passed (Null when
\* none is, and then the registry's current one is taken), by is the caller.
delegateState(w, c, arg, by) ==
  Entered(Log(w, Ev("delegate", c, Origin(w, arg), by,
                    DescAt(w, IF arg = Null THEN w.reg ELSE arg))),
          c, IF arg = Null THEN w.reg ELSE arg)

\* ------------------------------------------------------------------------
\* Name resolver: Controller.prototype._resolveFullState

\* String.prototype.split('.') of a name given as characters.
RECURSIVE ToParts(_)

PartsAt(s, c) ==
  IF c = 0 THEN <<Join(s)>>
  ELSE <<Join(SubSeq(s, 1, c - 1))>> \o ToParts(SubSeq(s, c + 1, Len(s)))

ToParts(s) == PartsAt(s, IndexOf(s, "."))

\* A resolver result: the exception thrown (err), whether the name field is
\* there, its value, the full name and the params.
Resolved(hasName, name, fullName, params) ==
  [err |-> "none", hasName |-> hasName, name |-> name, fullName |-> fullName,
   params |-> params]

ResolveError(e) ==
  [err |-> e, hasName |-> FALSE, name |-> "", fullName |-> <<"">>, params |-> NoParams]

\* Lines 336-337: the ancestor's current state anc joins the result.
Prepend(st, anc) ==
  [st EXCEPT !.fullName = IF st.fullName # <<"">> THEN <<getName(anc)>> \o st.fullName
                          ELSE <<getName(anc)>>,
             !.params = fillIn(st.params, anc.params)]

\* A walk that passes over an ancestor in no state and goes on above it.
RECURSIVE WalkPast(_, _, _)
WalkPast(w, a, st) ==
  IF a \notin Controllers THEN st
  ELSE IF w.ctl[a].cur = Null THEN WalkPast(w, Uplink[a], st)
  ELSE WalkPast(w, Uplink[a], Prepend(st, CurOf(w, a)))

\* The while loop of lines 327-340 from ancestor a on: it stops at the first
\* ancestor that is no controller or is in no state.
RECURSIVE WalkAncestors(_, _, _)
WalkAncestors(w, a, st) ==
  IF a \notin Controllers THEN st
  ELSE IF w.ctl[a].cur = Null THEN st
  ELSE WalkAncestors(w, Uplink[a], Prepend(st, CurOf(w, a)))

\* Lines 342-347: the default state dflt when the name is still empty.
DefaultInto(st, dflt) ==
  [st EXCEPT !.name = dflt.name,
             !.fullName = IF st.fullName # <<"">> THEN st.fullName ELSE <<dflt.name>>,
             !.params = mixIn(st.params, dflt.params)]

UseDefault(c, st) ==
  IF st.name = "" /\ HasDefault(c) THEN DefaultInto(st, DefaultState(c)) ELSE st

\* A relative branch that forgets line 315.
KeepName(r) == r

\* Line 315: delete state.name on what the parent resolved.
DeleteName(r) == IF r.err # "none" THEN r ELSE [r EXCEPT !.hasName = FALSE, !.name = ""]

\* Lines 320-324: the result a local name starts from.
LocalStart(w, c, name) ==
  Resolved(TRUE, Join(name), ToParts(name),
           IF w.ctl[c].cur # Null THEN mixIn(NoParams, CurOf(w, c).params)
           ELSE NoParams)

RECURSIVE resolveFullState(_, _, _)
resolveFullState(w, c, name) ==
  IF name # <<>> /\ name[1] = "/"
    THEN Resolved(FALSE, "", ToParts(Tail(name)), NoParams)
  ELSE IF startsWith(name, <<".", ".", "/">>)
    THEN IF Uplink[c] \notin Controllers
           THEN ResolveError(IF debug THEN "RelativeError" ELSE "TypeError")
           ELSE DeleteName(resolveFullState(w, Uplink[c], SubSeq(name, 4, Len(name))))
  ELSE UseDefault(c, WalkAncestors(w, Uplink[c], LocalStart(w, c, name)))

\* ------------------------------------------------------------------------
\* The registry's operations on its current descriptor

\* Whether the registry's current descriptor has this full name and params.
IsCurrent(w, full, params) ==
  w.reg # Null /\ w.heap[w.reg].full = full /\ w.heap[w.reg].params = params

\* stateRegistry.setCurrent: the current descriptor is replaced unless it has
\* this full name and these params already.
setCurrent(w, c, full, params) ==
  IF IsCurrent(w, full, params)
    THEN Log(w, Ev("setCurrent", c, "", "unchanged", Desc(full, 0, params)))
    ELSE Log([Alloc(w, Desc(full, 0, params)) EXCEPT !.reg = w.nid],
             Ev("setCurrent", c, "", "changed", Desc(full, 0, params)))

\* stateRegistry._createStateInstance(name, params)
createStateInstance(w, c, name, params) ==
  Log(Alloc(w, Desc(name, 0, params)),
      Ev("create", c, "", "setState", Desc(name, 0, params)))

\* stateRegistry.generateUrl(fullName, params, absolute)
generateUrl(full, params, absolute) ==
  [full |-> full, params |-> params, absolute |-> absolute]

\* ------------------------------------------------------------------------
\* Controller.prototype.setState

\* Line 94: stateRegistry.getCurrent().seekTo(stateMeta.name)
SeekCurrent(w, name) == [w EXCEPT !.heap[w.reg] = seekTo(@, name)]

\* A setState that goes on to delegateState whatever setCurrent returned.
SetAndDelegate(w, c, name, changed) ==
  delegateState(SeekCurrent(w, name), c, w.reg, "setState")

\* Lines 86-105 for a registered full name; changed is what setCurrent returned.
SetRegistered(w, c, name, changed) ==
  IF changed THEN Log(w, Ev("return", c, "", "this", NoDesc))
  ELSE delegateState(SeekCurrent(w, name), c, w.reg, "setState")

\* The parts of the local name in stateMeta.name: the raw name's, or the
\* default state's name.
LocalParts(name, raw) == IF name = Join(raw) THEN ToParts(raw) ELSE <<name>>

\* Lines 99-102: the new descriptor's params get the key $info, whose value
\* (the local metadata object) nothing in the controller compares.
Info == Bag("$info", 1)

Informed(w, id) == [w EXCEPT !.heap[id].params = mixIn(@, Info)]

\* A setState without the absolute branch of lines 79-83.
SetThroughRegistry(w, c, raw, stateMeta) ==
  IF isRegistered(stateMeta.fullName)
    THEN SetRegistered(setCurrent(w, c, stateMeta.fullName, stateMeta.params), c,
                       stateMeta.name,
                       ~IsCurrent(w, stateMeta.fullName, stateMeta.params))
  ELSE delegateState(
         Informed(createStateInstance(w, c, LocalParts(stateMeta.name, raw),
                                      stateMeta.params), w.nid),
         c, w.nid, "setState")

\* Lines 79-105, stateMeta being the resolved state with the params mixed in.
SetResolved(w, c, raw, stateMeta) ==
  IF ~stateMeta.hasName
    THEN Log(setCurrent(w, c, stateMeta.fullName, stateMeta.params),
             Ev("return", c, "", "this", NoDesc))
  ELSE IF isRegistered(stateMeta.fullName)
    THEN SetRegistered(setCurrent(w, c, stateMeta.fullName, stateMeta.params), c,
                       stateMeta.name,
                       ~IsCurrent(w, stateMeta.fullName, stateMeta.params))
  ELSE delegateState(
         Informed(createStateInstance(w, c, LocalParts(stateMeta.name, raw),
                                      stateMeta.params), w.nid),
         c, w.nid, "setState")

\* What lines 76-77 made of the name, logged: the local name (absent for an
\* absolute one), the full name and the params.
Noted(w, c, stateMeta) ==
  Log(w, Ev("resolved", c, stateMeta.name,
            IF stateMeta.hasName THEN "local" ELSE "absolute",
            Desc(stateMeta.fullName, 0, stateMeta.params)))

\* Lines 76-77: the state resolved, the caller's params mixed in.
MixParams(r, params) == [r EXCEPT !.params = mixIn(r.params, params)]

SetWith(w, c, raw, r, params) ==
  IF r.err # "none" THEN [w EXCEPT !.err = r.err]
  ELSE SetResolved(Noted(w, c, MixParams(r, params)), c, raw, MixParams(r, params))

setState(w, c, name, params) ==
  SetWith(w, c, name, resolveFullState(w, c, name), params)

\* Controller.prototype.generateUrl
UrlOf(r, params, absolute) ==
  IF r.err # "none" THEN [err |-> r.err, url |-> generateUrl(<<"">>, NoParams, absolute)]
  ELSE [err |-> "none",
        url |-> generateUrl(r.fullName, mixIn(r.params, params), absolute)]

controllerGenerateUrl(w, c, name, params, absolute) ==
  UrlOf(resolveFullState(w, c, name), params, absolute)

\* ------------------------------------------------------------------------
\* The state machine: one action per operation a caller can perform.

CtrlSeq == <<"root", "mid", "sib", "leaf", "pane", "bare">>

\* The references that outlive an operation, in a fixed order: the registry's
\* descriptor, the descriptor the caller passed, each controller's current and
\* previous one.
RECURSIVE CtlSlots(_, _)
CtlSlots(w, i) ==
  IF i > Len(CtrlSeq) THEN <<>>
  ELSE <<w.ctl[CtrlSeq[i]].cur, w.ctl[CtrlSeq[i]].prev>> \o CtlSlots(w, i + 1)

Slots(w, arg) == <<w.reg, arg>> \o CtlSlots(w, 1)

\* The objects referenced from sl, each once, in the order of their first
\* reference.
RECURSIVE Order(_, _, _)
Order(sl, i, acc) ==
  IF i > Len(sl) THEN acc
  ELSE Order(sl, i + 1,
             IF sl[i] = Null \/ sl[i] \in Range(acc) THEN acc ELSE Append(acc, sl[i]))

\* The identity an object gets when the live objects are numbered in that
\* order.
Rank(order, id) == IF id = Null THEN Null ELSE IndexOf(order, id)

\* The snapshot of the descriptors' values a claim compares against.
Snap(w) ==
  [ctl |-> [c \in Controllers |-> [cur |-> CurOf(w, c), prev |-> PrevOf(w, c)]],
   reg |-> IF w.reg = Null THEN NoDesc ELSE w.heap[w.reg]]

\* What last holds while no operation is under observation.
Unobserved ==
  [op |-> "none", c |-> "none", in |-> NoDesc, arg |-> Null, err |-> "none",
   log |-> <<>>, pre |-> NoDesc, out |-> NoDesc]

\* The unreferenced objects go and the others are renumbered.
Renumbered(w, order) ==
  /\ heap' = [n \in DOMAIN order |-> w.heap[order[n]]]
  /\ ctl' = [x \in Controllers |->
               [cur |-> Rank(order, w.ctl[x].cur), prev |-> Rank(order, w.ctl[x].prev)]]
  /\ regCur' = Rank(order, w.reg)

\* The operation under observation, the last of a behaviour, is recorded in
\* last with the world it started from; the descriptor the caller passed
\* stays with it.
Observed(w0, w, op, c, arg, in, order) ==
  /\ Renumbered(w, order)
  /\ last' = [op |-> op, c |-> c, in |-> in, arg |-> Rank(order, arg),
              err |-> w.err, log |-> w.log, pre |-> Snap(w0), out |-> NoDesc]
  /\ steps' = MaxSteps

\* The operations before it leave no record.
Silent(w, order) ==
  /\ Renumbered(w, order)
  /\ last' = Unobserved
  /\ steps' = steps + 1

\* The operation is over.
Finish(w0, w, op, c, arg, in) ==
  /\ \/ Observed(w0, w, op, c, arg, in, Order(Slots(w, arg), 1, <<>>))
     \/ Silent(w, Order(Slots(w, Null), 1, <<>>))
  /\ UNCHANGED debug

\* The world as the variables hold it.
Now == World(heap, ctl, regCur)

\* What a query leaves behind: only its record, err being what it threw.
Record(op, c, in, out, err) ==
  /\ last' = [op |-> op, c |-> c, in |-> in, arg |-> Null, err |-> err,
              log |-> <<>>, pre |-> Snap(Now), out |-> out]
  /\ steps' = MaxSteps
  /\ UNCHANGED <<heap, ctl, regCur, debug>>

\* The descriptors a caller creates and delegates to each controller: those
\* whose part under the cursor is at the controller's level of the tree, and
\* some that are not.
DescsFor ==
  [root |-> { Desc(<<"list">>, 0, NoParams),
              Desc(<<"show">>, 0, Bag("id", 1)),
              Desc(<<"show">>, 0, Bag("id", 2)),
              Desc(<<"edit">>, 0, Bag("id", 1)),
              Desc(<<"list", "item">>, 0, Bag("id", 1)),
              Desc(<<"list", "zzz">>, 0, NoParams) },
   mid |-> { Desc(<<"list", "item">>, 1, Bag("id", 1)),
             Desc(<<"list", "item">>, 1, Bag("id", 2)),
             Desc(<<"list", "active">>, 1, NoParams),
             Desc(<<"list">>, 1, NoParams) },
   sib |-> { Desc(<<"list", "item">>, 1, Bag("id", 1)),
             Desc(<<"list">>, 0, NoParams) },
   leaf |-> { Desc(<<"list">>, 1, NoParams),
              Desc(<<"show">>, 0, Bag("id", 1)) },
   pane |-> { Desc(<<"list">>, 1, NoParams),
              Desc(<<"list">>, 0, NoParams) },
   bare |-> { Desc(<<"list">>, 1, NoParams),
              Desc(<<"show">>, 0, Bag("id", 1)) }]

\* The names and params callers set.
SetInputs ==
  { [name |-> <<>>, params |-> NoParams],
    [name |-> K_item, params |-> Bag("id", 1)],
    [name |-> <<"/">> \o K_list \o <<".">> \o K_item, params |-> NoParams],
    [name |-> <<"/">> \o K_list \o <<".">> \o K_item, params |-> Bag("id", 1)] }

\* Raw names callers resolve.
RawNames ==
  {i.name : i \in SetInputs} \cup { <<".", ".", "/">> \o K_item, <<".", ".", "/">> }

\* The classes callers construct: those of the tree, and one for each way a
\* declaration can be wrong.
Declarations ==
  [root |-> Classes["root"],
   mid |-> Classes["mid"],
   leaf |-> Classes["leaf"],
   pane |-> Classes["pane"],
   bare |-> Classes["bare"],
   badFormat |-> [states |-> << [key |-> <<"i", "t", " ", "m">>, fn |-> Fn] >>,
                  methods |-> {}, dflt |-> [kind |-> "none"]],
   badParams |-> [states |-> << [key |-> K_item \o <<"(", ")">>, fn |-> Fn] >>,
                  methods |-> {}, dflt |-> [kind |-> "none"]],
   dotted |-> [states |-> << [key |-> K_list \o <<".">> \o K_item, fn |-> Fn] >>,
               methods |-> {}, dflt |-> [kind |-> "none"]],
   noHandler |-> [states |-> << [key |-> K_list, fn |-> Ref("onList")] >>,
                  methods |-> {"onEdit"}, dflt |-> [kind |-> "none"]],
   notCallable |-> [states |-> << [key |-> K_list, fn |-> [kind |-> "number"]] >>,
                    methods |-> {}, dflt |-> [kind |-> "none"]],
   emptyDefault |-> [states |-> << [key |-> K_list, fn |-> Fn] >>,
                     methods |-> {}, dflt |-> [kind |-> "string", name |-> ""]],
   emptyObject |-> [states |-> << [key |-> K_list, fn |-> Fn] >>,
                    methods |-> {},
                    dflt |-> [kind |-> "object", name |-> "", params |-> NoParams]],
   noSuchDefault |-> [states |-> << [key |-> K_list, fn |-> Fn] >>,
                      methods |-> {}, dflt |-> [kind |-> "string", name |-> "home"]]]

\* The registry's current descriptor when the controllers are constructed:
\* none, or the state the application started on.
StartStates == { NoDesc, Desc(<<"list">>, 0, NoParams) }

NoCtl == [c \in Controllers |-> [cur |-> Null, prev |-> Null]]

Init ==
  /\ \E d \in StartStates :
       /\ heap = IF d = NoDesc THEN <<>> ELSE <<d>>
       /\ regCur = IF d = NoDesc THEN Null ELSE 1
  /\ last = Unobserved
  /\ ctl = NoCtl
  /\ debug \in BOOLEAN
  /\ steps = 0

\* controller.delegateState() with no argument: the registry's current state.
DelegateCurrent ==
  /\ steps < MaxSteps
  /\ \E c \in Controllers :
       Finish(Now, delegateState(Now, c, Null, "caller"), "delegate", c,
              regCur, DescAt(Now, regCur))

\* controller.delegateState(state) with a descriptor of the caller's.
DelegateState ==
  /\ steps < MaxSteps
  /\ \E c \in Controllers :
       \E d \in DescsFor[c] :
         Finish(Now, delegateState(Alloc(Now, d), c, Now.nid, "caller"), "delegate", c,
                Now.nid, d)

\* controller.delegateState(controller.getState().clone())
DelegateClone ==
  /\ steps < MaxSteps
  /\ \E c \in Controllers :
       /\ ctl[c].cur # Null
       /\ Finish(Now, delegateState(Alloc(Now, clone(heap[ctl[c].cur])), c, Now.nid, "caller"),
                 "delegateClone", c, Now.nid, heap[ctl[c].cur])

\* The operation is over, and is the one recorded.
Recorded(w0, w, op, c, arg, in) ==
  /\ Observed(w0, w, op, c, arg, in, Order(Slots(w, arg), 1, <<>>))
  /\ UNCHANGED debug

\* controller.delegateState(controller.getState()): getState returns the
\* controller's current descriptor itself, and the caller hands it back.  It
\* differs from a call with a copy in what it leaves as previous descriptor,
\* which no later operation reads, so it is taken as the operation under
\* observation only.
DelegateOwn ==
  /\ steps < MaxSteps
  /\ \E c \in Controllers :
       /\ ctl[c].cur # Null
       /\ Recorded(Now, delegateState(Now, c, ctl[c].cur, "caller"), "delegateOwn", c,
                   ctl[c].cur, heap[ctl[c].cur])

\* controller.setState(name, params)
SetState ==
  /\ steps < MaxSteps
  /\ \E c \in Controllers, i \in SetInputs :
       Finish(Now, setState(Now, c, i.name, i.params), "setState", c, Null, i)

\* controller._resolveFullState(name)
Resolve ==
  /\ steps < MaxSteps
  /\ \E c \in Controllers, name \in RawNames :
       Record("resolve", c, [name |-> name, params |-> NoParams],
              resolveFullState(Now, c, name),
              resolveFullState(Now, c, name).err)

\* new Controller() of a declared class, before any state is delegated.
ConstructController ==
  /\ steps = 0
  /\ \E k \in DOMAIN Declarations :
       Record("construct", k, NoDesc, Construct(Declarations[k], debug),
              Construct(Declarations[k], debug).error)

Next ==
  \/ DelegateCurrent
  \/ DelegateState
  \/ DelegateClone
  \/ DelegateOwn
  \/ SetState
  \/ Resolve
  \/ ConstructController

Spec == Init /\ [][Next]_vars

\* The descriptors a handler of each controller delegates on its controller.
RedirectsFor ==
  [root |-> { Desc(<<"show">>, 0, Bag("id", 1)), Desc(<<"list">>, 0, NoParams) },
   mid |-> { Desc(<<"list", "active">>, 1, NoParams),
             Desc(<<"list", "item">>, 1, Bag("id", 1)) },
   sib |-> { Desc(<<"list", "home">>, 1, NoParams) },
   leaf |-> { Desc(<<"show">>, 0, Bag("id", 1)) },
   pane |-> {},
   bare |-> {}]

\* The world in which the handler of controller c will delegate t.
Redirecting(w, c, t) == [w EXCEPT !.redir = [c |-> c, t |-> t]]

\* The re-entrant operation is over, and recorded.
Reentered(w0, w, c, arg, in) == Recorded(w0, w, "delegateReentrant", c, arg, in)

\* controller.delegateState(state), or controller.delegateState() with the
\* registry's current state, where the handler that controller runs calls
\* this.delegateState(t); it is the operation under observation.
DelegateReentrant ==
  /\ steps < MaxSteps
  /\ \E c \in Controllers :
       \E t \in RedirectsFor[c] :
         \/ \E d \in DescsFor[c] :
              Reentered(Now,
                        delegateState(Alloc(Redirecting(Now, c, t), d), c, Now.nid, "caller"),
                        c, Now.nid, d)
         \/ /\ regCur # Null
            /\ Reentered(Now, delegateState(Redirecting(Now, c, t), c, Null, "caller"),
                         c, regCur, heap[regCur])

NextReentrant ==
  \/ DelegateCurrent
  \/ DelegateState
  \/ DelegateClone
  \/ DelegateOwn
  \/ SetState
  \/ Resolve
  \/ ConstructController
  \/ DelegateReentrant

\* The operations above with, as the last of them, a re-entrant one.
SpecReentrant == Init /\ [][NextReentrant]_vars

\* ------------------------------------------------------------------------
\* Properties.  They read the operation under observation: last.pre is the
\* world it started from, last.log what it did, the variables what it left.

\* The operation under observation is a delegateState call of a caller's.
Delegated == last.op \in {"delegate", "delegateClone"}

\* The events of the observed operation that are of kind t.
EventsOf(t) == {i \in DOMAIN last.log : last.log[i].t = t}

\* The places, among the children of p, of the controllers declaring n.
Declaring(p, n) ==
  {i \in DOMAIN Downlinks[p] :
     /\ Downlinks[p][i] \in Controllers
     /\ n \in {ParseKey(d.key).name : d \in Range(Classes[Downlinks[p][i]].states)}}

\* Controller x has the current and previous descriptors it had before the
\* observed operation.
Untouched(x) ==
  /\ CurOf(Now, x) = last.pre.ctl[x].cur
  /\ PrevOf(Now, x) = last.pre.ctl[x].prev

\* C1: when a parent propagates a descriptor whose remaining local name n is
\* declared by several of its children, delegateState is called on the first
\* of them in the order of the children only: no later child declaring n has
\* delegateState called on it, and the current and previous descriptors of
\* the later ones stay as they were.
C1_FirstChildOnly ==
  \A i \in EventsOf("delegate") :
    (last.log[i].by \in Controllers /\ getName(last.log[i].d) # "") =>
      /\ Declaring(last.log[i].by, getName(last.log[i].d)) # {}
      /\ \A j \in Declaring(last.log[i].by, getName(last.log[i].d)) :
           IF j = Min(Declaring(last.log[i].by, getName(last.log[i].d)))
             THEN last.log[i].c = Downlinks[last.log[i].by][j]
             ELSE /\ Untouched(Downlinks[last.log[i].by][j])
                  /\ \A k \in EventsOf("delegate") :
                       last.log[k].c # Downlinks[last.log[i].by][j]

\* C1 happens: root, in state "list", propagated "item", which its children
\* mid and sib both declare, and mid was delegated it.
C1_Witness ==
  /\ Delegated
  /\ Cardinality(Declaring("root", "item")) >= 2
  /\ \E i \in EventsOf("delegate") :
       /\ last.log[i].by = "root"
       /\ getName(last.log[i].d) = "item"
       /\ last.log[i].c = "mid"


\* The observed operation called delegateState and nothing was thrown; FirstCall is
\* the first call, the one a caller or setState made on controller last.c.
TopCall ==
  /\ last.op \in {"delegate", "delegateClone", "setState"}
  /\ last.err = "none"
  /\ EventsOf("delegate") # {}

FirstCall == last.log[Min(EventsOf("delegate"))]

\* The local names the class of controller c declares.
Declared(c) == {ParseKey(d.key).name : d \in Range(Classes[c].states)}

\* The local name of descriptor d once controller c has filled its default in.
FilledName(c, d) ==
  IF getName(d) = "" /\ Classes[c].dflt.kind # "none" THEN Classes[c].dflt.name
  ELSE getName(d)

\* The descriptor of the first call names a state its controller lacks.
UnknownName ==
  /\ TopCall
  /\ FilledName(FirstCall.c, FirstCall.d) # ""
  /\ FilledName(FirstCall.c, FirstCall.d) \notin Declared(FirstCall.c)

\* C2: delegateState with a descriptor whose local name, after the default
\* state was filled in, is not in the controller's state table leaves the
\* controller's current and previous descriptors as they were, runs no
\* handler, delegates to no child, and, in a debug build, warns of the
\* unknown state exactly once.
C2_UnknownNameNoOp ==
  UnknownName =>
    /\ Untouched(FirstCall.c)
    /\ EventsOf("handler") = {}
    /\ \A i \in EventsOf("delegate") : last.log[i].by \notin Controllers
    /\ debug => Cardinality({i \in EventsOf("warn") : last.log[i].by = "Unknown"}) = 1

\* C2 happens: a controller that is in a state was delegated an unknown name
\* in a debug build.
C2_Witness ==
  /\ UnknownName
  /\ debug
  /\ last.pre.ctl[FirstCall.c].cur # NoDesc


\* The declarations of class c that declare local name n.
DeclarationsOf(c, n) ==
  {d \in Range(Classes[c].states) : ParseKey(d.key).name = n}

\* Name n is declared by c in the wildcard form n(*).
IsWildcard(c, n) ==
  \E d \in DeclarationsOf(c, n) :
    /\ Len(d.key) > 3
    /\ SubSeq(d.key, Len(d.key) - 2, Len(d.key)) = <<"(", "*", ")">>

\* Name n is declared by c without a parameter list.
IsBareName(c, n) ==
  /\ DeclarationsOf(c, n) # {}
  /\ \A d \in DeclarationsOf(c, n) : "(" \notin Range(d.key)

\* C3: for a controller with a current descriptor, a state declared in the
\* wildcard form is never reported the same by _isSameState, even when the
\* candidate has the local name and the params of the current descriptor; a
\* state declared without a parameter list is always reported the same when
\* the candidate's local name is the current descriptor's, whatever the
\* params; with no current descriptor the answer is always different.
C3_SameStateRule ==
  \A i \in EventsOf("isSame") :
    /\ last.pre.ctl[last.log[i].c].cur = NoDesc => last.log[i].by = "different"
    /\ (/\ last.pre.ctl[last.log[i].c].cur # NoDesc
        /\ IsWildcard(last.log[i].c, last.log[i].name))
         => last.log[i].by = "different"
    /\ (/\ last.pre.ctl[last.log[i].c].cur # NoDesc
        /\ IsBareName(last.log[i].c, last.log[i].name)
        /\ getName(last.pre.ctl[last.log[i].c].cur) = last.log[i].name)
         => last.log[i].by = "same"

\* C3 happens: a controller in a wildcard state was delegated a descriptor of
\* the same local name and the same params.
C3_Witness ==
  \E i \in EventsOf("isSame") :
    /\ IsWildcard(last.log[i].c, last.log[i].name)
    /\ getName(last.pre.ctl[last.log[i].c].cur) = last.log[i].name
    /\ last.pre.ctl[last.log[i].c].cur.params = last.log[i].d.params
    /\ DOMAIN last.log[i].d.params # {}

\* The other two cases of C3 happen too.
C3_BareNameCase ==
  \E i \in EventsOf("isSame") :
    /\ IsBareName(last.log[i].c, last.log[i].name)
    /\ getName(last.pre.ctl[last.log[i].c].cur) = last.log[i].name
    /\ last.pre.ctl[last.log[i].c].cur.params # last.log[i].d.params

C3_NoBaseCase ==
  \E i \in EventsOf("isSame") : last.pre.ctl[last.log[i].c].cur = NoDesc


\* Sequence s ends with sequence e.
EndsWith(s, e) == Len(s) >= Len(e) /\ SubSeq(s, Len(s) - Len(e) + 1, Len(s)) = e

\* The observed operation delegated the registry's current descriptor.
RegistryDelegated ==
  /\ TopCall
  /\ last.op = "delegate"
  /\ regCur # Null
  /\ last.arg = regCur

\* Call i of the observed operation was made by a parent that had itself been
\* delegated the descriptor with an empty local name, on a child that got it
\* with an empty local name again: both filled their default state in.
ThroughDefaults(i) ==
  /\ RegistryDelegated
  /\ last.log[i].by \in Controllers
  /\ getName(last.log[i].d) = ""
  /\ Classes[last.log[i].c].dflt.kind # "none"
  /\ \E j \in EventsOf("delegate") :
       /\ last.log[j].c = last.log[i].by
       /\ getName(last.log[j].d) = ""
       /\ Classes[last.log[j].c].dflt.kind # "none"

\* C4: when the registry's current descriptor, its local name empty, is
\* delegated to a parent whose default state is p and the delegation reaches
\* a child whose default state is c, the descriptor's full name ends with p.c
\* in the end, and the parent's current descriptor has that full name once
\* the parent's delegateState has returned.
C4_DefaultsReconciled ==
  \A i \in EventsOf("delegate") :
    ThroughDefaults(i) =>
      /\ EndsWith(heap[regCur].full,
                  <<Classes[last.log[i].by].dflt.name, Classes[last.log[i].c].dflt.name>>)
      /\ CurOf(Now, last.log[i].by).full = heap[regCur].full

\* C4 happens: mid (default "active") passed the registry's descriptor on to
\* leaf (default "home").
C4_Witness ==
  \E i \in EventsOf("delegate") :
    /\ ThroughDefaults(i)
    /\ last.log[i].by = "mid"
    /\ last.log[i].c = "leaf"


\* Descriptors a and b agree on the keys given: each has the key or neither,
\* with one value.
AgreeOn(a, b, keys) ==
  \A k \in keys :
    /\ (k \in DOMAIN a.params) = (k \in DOMAIN b.params)
    /\ k \in DOMAIN a.params => a.params[k] = b.params[k]

\* The observed operation delegated, to a controller, a clone of its current
\* descriptor, which is last.in.
CloneDelegated == last.op = "delegateClone" /\ last.err = "none"

\* C5: delegating to a controller a clone of its current descriptor s leaves a
\* current descriptor equal to s by the rule of s's table entry: the same
\* local name and the same values for every relevant parameter.
C5_CloneIdempotent ==
  CloneDelegated =>
    /\ getName(CurOf(Now, last.c)) = getName(last.in)
    /\ AgreeOn(CurOf(Now, last.c), last.in,
               Range(States(last.c)[getName(last.in)].params))

\* C5 happens: the state cloned has relevant parameters, and values for them.
C5_Witness ==
  /\ CloneDelegated
  /\ Range(States(last.c)[getName(last.in)].params) \cap DOMAIN last.in.params # {}


\* The observed operation resolved the empty name on a controller whose
\* default state is "home" and that was in no state.
HomeResolved ==
  /\ last.op = "resolve"
  /\ last.in.name = <<>>
  /\ Classes[last.c].dflt.kind # "none"
  /\ Classes[last.c].dflt.name = "home"
  /\ last.pre.ctl[last.c].cur = NoDesc

\* Bag a has every key of bag b, with b's value.
Contains(a, b) == \A k \in DOMAIN b : k \in DOMAIN a /\ a[k] = b[k]

\* C6: a controller whose default state is "home" and that is in no state
\* resolves the empty name, whatever states its ancestors are in, to the local
\* name "home", a full name whose last part is "home", and params containing
\* those of the default state.
C6_DefaultResolved ==
  HomeResolved =>
    /\ last.err = "none"
    /\ last.out.hasName
    /\ last.out.name = "home"
    /\ last.out.fullName[Len(last.out.fullName)] = "home"
    /\ Contains(last.out.params, Classes[last.c].dflt.params)

\* What of C6 the code does keep: the local name and the params.
C6_NameAndParams ==
  HomeResolved =>
    /\ last.err = "none"
    /\ last.out.hasName
    /\ last.out.name = "home"
    /\ Contains(last.out.params, Classes[last.c].dflt.params)
    /\ last.out.fullName[Len(last.out.fullName)] = "home"
         <=> last.pre.ctl[Uplink[last.c]].cur = NoDesc


\* The observed operation resolved a name that starts with "../".
RelativeResolved ==
  /\ last.op = "resolve"
  /\ startsWith(last.in.name, <<".", ".", "/">>)

\* The name after the "../".
Remainder == SubSeq(last.in.name, 4, Len(last.in.name))

\* The relative name was resolved on a controller one level below the root:
\* it succeeded, with the full name and the params the parent's resolver
\* gives for the remainder, and no local name.
ResolvedByParent ==
  (RelativeResolved /\ Uplink[last.c] \in Controllers /\ Uplink[Uplink[last.c]] = "none") =>
    /\ last.err = "none"
    /\ ~last.out.hasName
    /\ last.out.fullName = resolveFullState(Now, Uplink[last.c], Remainder).fullName
    /\ last.out.params = resolveFullState(Now, Uplink[last.c], Remainder).params

C7_RootCase ==
  /\ RelativeResolved
  /\ last.c = "root"
  /\ ~debug
  /\ last.pre.ctl["root"].cur # NoDesc


\* The string of a full name: its parts joined by dots.
RECURSIVE Dotted(_)
Dotted(parts) ==
  IF Len(parts) = 1 THEN parts[1] ELSE parts[1] \o "." \o Dotted(Tail(parts))

\* The name of the observed operation starts with "/".
AbsoluteName == last.in.name # <<>> /\ last.in.name[1] = "/"

\* C8: resolving a name that starts with "/" gives the name less the "/" as
\* full name, no local name and no params but those the caller supplies,
\* whatever states the controller and its ancestors are in and whatever its
\* default state; setState with such a name calls the registry's setCurrent,
\* with that full name and the caller's params, and never delegateState.
C8_AbsoluteName ==
  /\ (last.op = "resolve" /\ AbsoluteName) =>
       /\ last.err = "none"
       /\ ~last.out.hasName
       /\ Dotted(last.out.fullName) = Join(Tail(last.in.name))
       /\ last.out.params = NoParams
  /\ (last.op = "setState" /\ AbsoluteName) =>
       /\ last.err = "none"
       /\ Cardinality(EventsOf("setCurrent")) = 1
       /\ \A i \in EventsOf("setCurrent") :
            /\ Dotted(last.log[i].d.full) = Join(Tail(last.in.name))
            /\ last.log[i].d.params = last.in.params
       /\ EventsOf("delegate") = {}
       /\ EventsOf("create") = {}
       /\ \A c \in Controllers : Untouched(c)

\* C8 happens: a controller in a state with params, under a parent in a
\* state, set an absolute name with params.
C8_Witness ==
  /\ last.op = "setState"
  /\ AbsoluteName
  /\ DOMAIN last.in.params # {}
  /\ DOMAIN last.pre.ctl[last.c].cur.params # {}
  /\ Uplink[last.c] \in Controllers
  /\ last.pre.ctl[Uplink[last.c]].cur # NoDesc

\* So does the case of an absolute name that is the registry's current one
\* already, in which a setState of a local name would go on to delegateState.
C8_UnchangedCase ==
  /\ last.op = "setState"
  /\ AbsoluteName
  /\ \E i \in EventsOf("setCurrent") : last.log[i].by = "unchanged"

\* The resolver's case of C8 happens too.
C8_ResolveCase ==
  /\ last.op = "resolve"
  /\ AbsoluteName
  /\ DOMAIN last.pre.ctl[last.c].cur.params # {}
  /\ Uplink[last.c] \in Controllers
  /\ last.pre.ctl[Uplink[last.c]].cur # NoDesc


\* At event i of the observed operation a controller found the descriptor to
\* be its current state, and so propagated it, and called delegateState on no
\* child.
PropagatedToNone(i) ==
  /\ last.err = "none"
  /\ last.log[i].t = "isSame"
  /\ last.log[i].by = "same"
  /\ \A k \in EventsOf("delegate") : last.log[k].by # last.log[i].c

\* C9 as claimed: when delegateState propagates and no child can take the
\* descriptor, the controller's current and previous descriptors are what
\* they were before the call, no handler runs and nothing is thrown.
C9_NoChildAsClaimed ==
  \A i \in DOMAIN last.log :
    PropagatedToNone(i) =>
      /\ Untouched(last.log[i].c)
      /\ EventsOf("handler") = {}

\* Controller x was handed its own current descriptor, the object itself.
HandedOwn(x) == last.op = "delegateOwn" /\ x = last.c

\* C9 as amended: no handler runs and nothing is thrown, but the controller
\* has committed: its previous descriptor is its former current one (the
\* object: when that is the very object delegated, its cursor has advanced),
\* and its current descriptor is a copy of the descriptor delegated, the same
\* state as the former current one by the relevant-parameter rule only.
C9_NoChildAmended ==
  \A i \in DOMAIN last.log :
    PropagatedToNone(i) =>
      /\ EventsOf("handler") = {}
      /\ PrevOf(Now, last.log[i].c) =
           IF HandedOwn(last.log[i].c) THEN next(last.pre.ctl[last.log[i].c].cur)
           ELSE last.pre.ctl[last.log[i].c].cur
      /\ HandedOwn(last.log[i].c) => ctl[last.log[i].c].prev = last.arg
      /\ CurOf(Now, last.log[i].c) = last.log[i].d
      /\ getName(CurOf(Now, last.log[i].c)) = getName(last.pre.ctl[last.log[i].c].cur)
      /\ AgreeOn(CurOf(Now, last.log[i].c), last.pre.ctl[last.log[i].c].cur,
                 Range(States(last.log[i].c)[last.log[i].name].params))

\* C9 happens: a controller in a state, with no previous one, propagated a
\* descriptor with a name left that no child of it declares.
C9_Witness ==
  \E i \in DOMAIN last.log :
    /\ PropagatedToNone(i)
    /\ getName(next(last.log[i].d)) # ""
    /\ Declaring(last.log[i].c, getName(next(last.log[i].d))) = {}
    /\ last.pre.ctl[last.log[i].c].prev = NoDesc


\* The declarations that are wrong, and the error each is wrong by.
Faulty ==
  [badFormat |-> "InvalidFormat", badParams |-> "InvalidFormat", dotted |-> "NotLocal",
   noHandler |-> "NoHandler", notCallable |-> "NoHandler",
   emptyDefault |-> "EmptyDefault", emptyObject |-> "EmptyDefault",
   noSuchDefault |-> "NoSuchDefault"]

\* The observed operation constructed a controller of a wrong declaration.
FaultyConstructed == last.op = "construct" /\ last.c \in DOMAIN Faulty

C10_DebugCase == FaultyConstructed /\ debug /\ last.c = "noSuchDefault"


\* The observed operation is a setState of a local name (neither absolute nor
\* relative) that threw nothing; Meta is what the name resolved to, its full
\* name and params in Meta.d.
LocalSet ==
  /\ last.op = "setState"
  /\ last.err = "none"
  /\ \E i \in EventsOf("resolved") : last.log[i].by = "local"

Meta == last.log[Min(EventsOf("resolved"))]

\* The first delegateState call of the observed operation was made by
\* setState on its own controller.
SelfDelegated ==
  /\ EventsOf("delegate") # {}
  /\ FirstCall.c = last.c
  /\ FirstCall.by = "setState"

\* The registry's current descriptor is the one it was before the operation,
\* unchanged.
RegistryKept ==
  IF regCur = Null THEN last.pre.reg = NoDesc ELSE heap[regCur] = last.pre.reg

\* C11: setState of a local name whose full name is registered calls
\* setCurrent; if that reports a change, delegateState is not called; if it
\* reports none, the registry's current descriptor, sought to the local
\* name, is delegated to the controller and no descriptor is created.  A
\* descriptor is created only when the full name is not registered, and the
\* registry's current descriptor is then not replaced.
C11_RegisteredOrCreated ==
  LocalSet =>
    IF isRegistered(Meta.d.full)
      THEN /\ EventsOf("create") = {}
           /\ Cardinality(EventsOf("setCurrent")) = 1
           /\ \A i \in EventsOf("setCurrent") :
                /\ last.log[i].d = Meta.d
                /\ IF last.log[i].by = "changed"
                     THEN EventsOf("delegate") = {}
                     ELSE /\ SelfDelegated
                          /\ FirstCall.name = "getCurrent"
                          /\ FirstCall.d = seekTo(last.pre.reg, Meta.name)
      ELSE /\ EventsOf("setCurrent") = {}
           /\ Cardinality(EventsOf("create")) = 1
           /\ SelfDelegated
           /\ FirstCall.name = ""
           /\ RegistryKept

\* C11 happens: the full name was registered and current already, and the
\* registry's descriptor was delegated.
C11_Witness ==
  /\ LocalSet
  /\ isRegistered(Meta.d.full)
  /\ \E i \in EventsOf("setCurrent") : last.log[i].by = "unchanged"
  /\ EventsOf("handler") # {}

\* The other cases of C11 happen too.
C11_ChangedCase ==
  /\ LocalSet
  /\ \E i \in EventsOf("setCurrent") : last.log[i].by = "changed"

C11_CreatedCase ==
  /\ LocalSet
  /\ EventsOf("create") # {}
  /\ last.pre.reg # NoDesc


\* The commits controller x made before event i of the observed operation.
CommitsBefore(x, i) ==
  {j \in EventsOf("commit") : j < i /\ last.log[j].c = x}

\* By event i, controller x has committed a copy of the descriptor and the
\* descriptor, as event i has it, is that copy advanced by one part.
CommittedAndAdvanced(x, i) ==
  /\ CommitsBefore(x, i) # {}
  /\ last.log[i].d = next(last.log[Max(CommitsBefore(x, i))].d)
  /\ last.log[i].d.cur = last.log[Max(CommitsBefore(x, i))].d.cur + 1

\* C12: within a delegation every controller has committed its own update
\* and advanced the descriptor by one part before its handler is called and
\* before delegateState is called on a child of it.
C12_CommitBeforeHandlerOrChild ==
  /\ \A i \in EventsOf("handler") : CommittedAndAdvanced(last.log[i].c, i)
  /\ \A i \in EventsOf("delegate") :
       last.log[i].by \in Controllers => CommittedAndAdvanced(last.log[i].by, i)

\* C12 happens: a parent passed the descriptor to a child, whose handler ran.
C12_Witness ==
  \E i \in EventsOf("delegate") :
    /\ last.log[i].by \in Controllers
    /\ \E k \in EventsOf("handler") : k > i /\ last.log[k].c = last.log[i].c


\* The descriptor objects controller x holds.
Held(x) == {ctl[x].cur, ctl[x].prev} \ {Null}

\* The descriptor object the caller passed to the observed delegateState.
Passed == IF last.op \in {"delegate", "delegateClone", "delegateOwn"} THEN last.arg ELSE Null

\* The commits controller x made in the observed operation.
CommitsOf(x) == {j \in EventsOf("commit") : last.log[j].c = x}

\* Descriptors a and b have the same local name and the same params.
SameNameAndParams(a, b) == getName(a) = getName(b) /\ a.params = b.params

\* C13 as claimed: the current and previous descriptors of a controller are never the
\* object the registry holds as current, nor an object another controller
\* holds as current or previous, nor the object passed to delegateState; and
\* what happens to the delegated descriptor after a controller's commit
\* (its cursor advancing, a descendant filling a default in) changes neither
\* the local name nor the params the controller committed.
C13_NoAliasing ==
  \A x \in Controllers :
    /\ regCur \notin Held(x)
    /\ Passed \notin Held(x)
    /\ \A y \in Controllers \ {x} : Held(x) \cap Held(y) = {}
    /\ CommitsOf(x) # {} =>
         SameNameAndParams(CurOf(Now, x), last.log[Max(CommitsOf(x))].d)
    /\ Cardinality(CommitsOf(x)) = 1 =>
         SameNameAndParams(PrevOf(Now, x), last.pre.ctl[x].cur)

\* The same, of every operation but the one that hands a controller its own
\* current descriptor.
C13_UnlessHandedOwn == last.op # "delegateOwn" => C13_NoAliasing

\* The observed operation ran delegateState, on a descriptor of the caller's,
\* of a controller's or through setState, and nothing was thrown.
Ran ==
  /\ last.op \in {"delegate", "delegateClone", "delegateOwn", "setState"}
  /\ last.err = "none"
  /\ EventsOf("delegate") # {}

\* The last controller delegateState was called on in the observed run.
LastCalled == last.log[Max(EventsOf("delegate"))].c

\* Every call after the first is made by the controller called just before,
\* on a child of it: the run goes down one path of the tree, and so ends.
Descends ==
  \A k \in EventsOf("delegate") :
    k # Min(EventsOf("delegate")) =>
      /\ last.log[k].by = Uplink[last.log[k].c]
      /\ last.log[k].by = last.log[Max({j \in EventsOf("delegate") : j < k})].c

\* Every call has returned.
AllReturned ==
  /\ Cardinality(EventsOf("return")) = Cardinality(EventsOf("delegate"))
  /\ \A k \in EventsOf("delegate") :
       \E r \in EventsOf("return") : r > k /\ last.log[r].c = last.log[k].c

\* The run ended on a controller that declares no states and was left with no
\* local name.
EndedStateless ==
  /\ NrStates(LastCalled) = 0
  /\ \E r \in EventsOf("return") :
       last.log[r].c = LastCalled /\ last.log[r].name = "" /\ last.log[r].by = "undefined"

\* The run ended on a controller that propagated a descriptor with no name
\* left, which none of its children could take.
EndedNameless ==
  \E i \in EventsOf("isSame") :
    /\ last.log[i].c = LastCalled
    /\ last.log[i].by = "same"
    /\ getName(next(last.log[i].d)) = ""

\* C14 as claimed: a delegateState run ends with a handler having been
\* called or with a diagnostic having been emitted, never with neither.
C14_HandlerOrDiagnostic ==
  Ran => (EventsOf("handler") # {}) # (EventsOf("warn") # {})

\* C14 as amended: every run goes down one path of the tree and every call
\* of it returns; at most one handler is called and at most one diagnostic
\* emitted, never both; and a run ends with neither exactly when the build is
\* not a debug build and no handler was called, or it ended on a controller
\* with no states and no local name, or on one that propagated a descriptor
\* with no name left that no child could take.
C14_HandlerDiagnosticOrSilent ==
  Ran =>
    /\ Descends
    /\ AllReturned
    /\ Cardinality(EventsOf("handler")) + Cardinality(EventsOf("warn")) <= 1
    /\ (EventsOf("handler") = {} /\ EventsOf("warn") = {})
         <=> (EventsOf("handler") = {} /\ (~debug \/ EndedStateless \/ EndedNameless))

\* C14 happens: in a debug build a run went from a controller down to a child
\* and ended there with neither a handler nor a diagnostic.
C14_Witness ==
  /\ Ran
  /\ debug
  /\ Cardinality(EventsOf("delegate")) >= 2
  /\ EventsOf("handler") = {}
  /\ EventsOf("warn") = {}

\* C14 also happens with a handler, and with a diagnostic.
C14_HandlerCase == Ran /\ debug /\ EventsOf("handler") # {}

C14_DiagnosticCase == Ran /\ EventsOf("warn") # {}

\* The observed operation resolved a local name or the empty one, by
\* _resolveFullState itself or in setState.
LocallyResolved ==
  /\ last.op \in {"resolve", "setState"}
  /\ last.err = "none"
  /\ ~(last.in.name # <<>> /\ last.in.name[1] = "/")
  /\ ~startsWith(last.in.name, <<".", ".", "/">>)

\* The params it came to: those _resolveFullState returned, or those setState
\* had once the caller's were mixed in.
ResolvedParams == IF last.op = "resolve" THEN last.out.params ELSE Meta.d.params

\* The params p, filled with those of the current states of the ancestors
\* from a upwards, up to the first ancestor in no state.
RECURSIVE Inherited(_, _)
Inherited(a, p) ==
  IF a \notin Controllers THEN p
  ELSE IF last.pre.ctl[a].cur = NoDesc THEN p
  ELSE Inherited(Uplink[a], fillIn(p, last.pre.ctl[a].cur.params))

\* The caller's params, then the controller's own, then its ancestors'.
AboveDefault ==
  Inherited(Uplink[last.c], fillIn(last.in.params, last.pre.ctl[last.c].cur.params))

\* The default state is resolved to: no name was given and there is one.
DefaultUsed == last.in.name = <<>> /\ HasDefault(last.c)

\* C15: resolving a local or empty name, the params are the caller's, then
\* the controller's own current ones, then those of each ancestor from the
\* nearest to the farthest, then the default state's, a key never being
\* overwritten by a later source: the default state's params fill only the
\* keys still missing.
C15_ParamPrecedence ==
  LocallyResolved =>
    ResolvedParams =
      IF DefaultUsed THEN fillIn(AboveDefault, DefaultState(last.c).params)
      ELSE AboveDefault

\* What holds instead: the default state's params come second, after the
\* caller's only.
C15_DefaultSecond ==
  LocallyResolved =>
    ResolvedParams =
      IF DefaultUsed
        THEN fillIn(fillIn(last.in.params, DefaultState(last.c).params), AboveDefault)
      ELSE AboveDefault

\* What the observed setState or delegateState returned to its caller: the
\* last of the values returned, the calls it made having returned before it.
ReturnedToCaller == last.log[Max(EventsOf("return"))]

\* The observed operation is a setState or delegateState that threw nothing.
Called ==
  /\ last.op \in {"delegate", "delegateClone", "delegateOwn", "setState"}
  /\ last.err = "none"

\* C16: setState and delegateState return the controller itself on every
\* path, the paths that change nothing included.
C16_ReturnsThis ==
  Called =>
    /\ EventsOf("return") # {}
    /\ ReturnedToCaller.c = last.c
    /\ ReturnedToCaller.by = "this"

\* Where they do: everywhere but on the two paths of delegateState that warn
\* and change nothing, which return undefined.
C16_ThisUnlessNoOp ==
  Called =>
    /\ EventsOf("return") # {}
    /\ ReturnedToCaller.c = last.c
    /\ ReturnedToCaller.by =
         IF /\ EventsOf("delegate") # {}
            /\ \/ FilledName(FirstCall.c, FirstCall.d) = ""
               \/ FilledName(FirstCall.c, FirstCall.d) \notin Declared(FirstCall.c)
           THEN "undefined" ELSE "this"

\* The handler calls controller x made in the observed operation.
HandlersOf(x) == {k \in EventsOf("handler") : last.log[k].c = x}

\* The delegateState calls controller x made on its children.
HandedBy(x) == {k \in EventsOf("delegate") : last.log[k].by = x}

\* C17: a controller delegated a descriptor whose local name n it declares
\* calls its handler for n, with the descriptor's params, exactly when the
\* descriptor is not the same state as its current one, and then calls
\* delegateState on no child; when it is the same state, it calls no handler
\* of its own and delegateState on at most one child; so at most one handler
\* is called in a whole run.
C17_HandlerIffDifferent ==
  /\ \A k \in EventsOf("delegate") :
       (last.err = "none" /\ FilledName(last.log[k].c, last.log[k].d) \in Declared(last.log[k].c)) =>
         \E i \in EventsOf("isSame") :
           /\ i > k
           /\ last.log[i].c = last.log[k].c
           /\ last.log[i].name = FilledName(last.log[k].c, last.log[k].d)
  /\ \A i \in EventsOf("isSame") :
       IF last.log[i].by = "different"
         THEN /\ Cardinality(HandlersOf(last.log[i].c)) = 1
              /\ \A k \in HandlersOf(last.log[i].c) :
                   /\ k > i
                   /\ last.log[k].name = last.log[i].name
                   /\ last.log[k].by = States(last.log[i].c)[last.log[i].name].fn
                   /\ last.log[k].d.params = last.log[i].d.params
              /\ HandedBy(last.log[i].c) = {}
         ELSE /\ HandlersOf(last.log[i].c) = {}
              /\ Cardinality(HandedBy(last.log[i].c)) <= 1
  /\ Cardinality(EventsOf("handler")) <= 1

\* C17 happens: a controller found the descriptor to be its current state and
\* called delegateState on a child, which found it different and called its
\* handler.
C17_Witness ==
  \E i, j \in EventsOf("isSame") :
    /\ last.log[i].by = "same"
    /\ last.log[j].by = "different"
    /\ HandedBy(last.log[i].c) # {}
    /\ HandlersOf(last.log[j].c) # {}
    /\ last.log[j].d.params # NoParams

\* The controllers delegateState was called on in the observed operation:
\* the one the caller named and those on the path down from it.
OnPath == {last.log[k].c : k \in EventsOf("delegate")}

\* The reconciliations controller x made.
ReconciledBy(x) == {k \in EventsOf("reconcile") : last.log[k].c = x}

\* Controller x wrote its fields in its own step: its previous descriptor is
\* its former current one (the object, when that is the very object
\* delegated), and its current one is the copy it committed, but for the full
\* name.
WroteOwn(x) ==
  /\ IF HandedOwn(x) THEN ctl[x].prev = last.arg
     ELSE PrevOf(Now, x) = last.pre.ctl[x].cur
  /\ CurOf(Now, x) =
       [last.log[Max(CommitsOf(x))].d EXCEPT !.full = CurOf(Now, x).full]
  /\ getName(CurOf(Now, x)) = getName(last.log[Max(CommitsOf(x))].d)
  /\ IF ReconciledBy(x) = {} THEN CurOf(Now, x) = last.log[Max(CommitsOf(x))].d
     ELSE CurOf(Now, x).full = last.log[Max(ReconciledBy(x))].d.full

NameResolved == LocallyResolved /\ last.in.name # <<>>

\* The local name and the full name it came to.
ResolvedName == IF last.op = "resolve" THEN last.out.name ELSE Meta.name

ResolvedFull == IF last.op = "resolve" THEN last.out.fullName ELSE Meta.d.full

\* The current local names of the ancestors from a upwards that are in a
\* state, up to the first that is in none, the farthest first.
RECURSIVE NamesAbove(_)
NamesAbove(a) ==
  IF a \notin Controllers THEN <<>>
  ELSE IF last.pre.ctl[a].cur = NoDesc THEN <<>>
  ELSE Append(NamesAbove(Uplink[a]), getName(last.pre.ctl[a].cur))

\* C19: resolving a local name n that is not empty gives the local name n and
\* as full name the current local names of the consecutive ancestors in a
\* state, from the farthest down to the parent, followed by n; the walk stops
\* at the first ancestor in no state, and no ancestor above it gives a part of
\* the name or a param, whatever state it is in.
C19_AncestorWalk ==
  NameResolved =>
    /\ ResolvedName = Join(last.in.name)
    /\ ResolvedFull = NamesAbove(Uplink[last.c]) \o ToParts(last.in.name)
    /\ ResolvedParams = AboveDefault

\* C19 happens: leaf resolved "item" with its parent mid in no state and the
\* root, above mid, in a state with params.
C19_Witness ==
  /\ NameResolved
  /\ last.c = "leaf"
  /\ last.pre.ctl["mid"].cur = NoDesc
  /\ last.pre.ctl["root"].cur # NoDesc
  /\ last.pre.ctl["root"].cur.params # NoParams
  /\ ResolvedFull = <<"item">>

\* C19 also happens with both ancestors in a state.
C19_ChainCase ==
  /\ NameResolved
  /\ last.c = "leaf"
  /\ last.pre.ctl["mid"].cur # NoDesc
  /\ last.pre.ctl["root"].cur # NoDesc
  /\ Len(ResolvedFull) = 3

\* The calls of delegateState that handlers made in the observed operation.
InnerCalls == {k \in EventsOf("delegate") : last.log[k].by = "handler"}

\* The descriptor t the handler delegated, as it was passed.
InnerDesc == last.log[Max(InnerCalls)].d

\* The handler that delegated it: the event just before the call.
OuterHandler == last.log[Max(InnerCalls) - 1]

\* The handler that controller last.c ran for the descriptor s it was
\* delegated has delegated, on last.c, a descriptor t whose local name last.c
\* declares and is not that of s.
ReenteredWithOther ==
  /\ last.op = "delegateReentrant"
  /\ last.err = "none"
  /\ InnerCalls # {}
  /\ FilledName(last.c, InnerDesc) \in Declared(last.c)
  /\ FilledName(last.c, InnerDesc) # OuterHandler.name

\* Descriptor d is a copy of descriptor x as its controller took it: the
\* local name is the one of x with the default filled in, and the params of x
\* are all there.
CopyOf(d, x) ==
  /\ getName(d) = FilledName(last.c, x)
  /\ d.cur = x.cur
  /\ Contains(d.params, x.params)
  /\ getName(x) # "" => d.full = x.full

\* C20: when the handler that delegateState(s) calls on a controller itself
\* delegates, on the same controller, a descriptor t with another declared
\* local name, then after the outer call the controller's current descriptor
\* is the copy of t, its previous one is the copy of s, and the outer call's
\* reconciliation has not written the full name of s onto the current one.
C20_ReentrantDelegation ==
  ReenteredWithOther =>
    /\ Cardinality(InnerCalls) = 1
    /\ OuterHandler.t = "handler"
    /\ OuterHandler.c = last.c
    /\ Cardinality(CommitsOf(last.c)) = 2
    /\ CurOf(Now, last.c) = last.log[Max(CommitsOf(last.c))].d
    /\ CopyOf(CurOf(Now, last.c), InnerDesc)
    /\ PrevOf(Now, last.c) = last.log[Min(CommitsOf(last.c))].d
    /\ CopyOf(PrevOf(Now, last.c), FirstCall.d)
    /\ ReconciledBy(last.c) = {}

\* C20 happens: the descriptor s was the registry's current one, whose full
\* name the reconciliation copies when the local names agree.
C20_Witness ==
  /\ ReenteredWithOther
  /\ FirstCall.name = "getCurrent"
  /\ ctl[last.c].prev # Null
  /\ CurOf(Now, last.c).full # PrevOf(Now, last.c).full

====
